---- MODULE Spec2Model ----
(***************************************************************************)
(* Model of the generation orchestration of webllm-svg:                    *)
(*   SVGGenerator (src/src/components/svg-generator.tsx, lines 174-1249)   *)
(*   useWebLLM    (same file, lines 1263-1525)                             *)
(*                                                                         *)
(* Text is a sequence of tokens.  Tokens:                                  *)
(*   "T"    text that contains no svg tag                                  *)
(*   "O64"  an opening <svg ...> tag declaring viewBox="0 0 64 64"         *)
(*   "O32"  an opening <svg ...> tag declaring viewBox="0 0 32 32"         *)
(*   "O0"   an opening <svg ...> tag without a viewBox attribute           *)
(*   "B"    markup that is not well-formed XML (an unclosed element)       *)
(*   "C"    the closing tag </svg>                                         *)
(* Engine handles are small integers, 0 standing for null; a new engine    *)
(* gets an identity different from the one still referenced.  At most one  *)
(* AbortController is referenced at any time: abortControllerRef is 0 for  *)
(* null and 1 for a controller, and `created` tells that the latest step   *)
(* constructed the controller now referenced.                              *)
(***************************************************************************)
EXTENDS Integers, Sequences, FiniteSets, TLC

\* ------------------------------------------------------------------ bounds
\* Longest buffer (in tokens) to which the adapter still appends a fragment.
MaxLen == 2

\* Number of handleStop invocations that may be awaiting interruptGenerate.
MaxPendingStops == 1

\* Longest buffer (in tokens) handed to the extraction on its own.
MaxBuf == 4

\* Number of history entries, counted from the most recent, that are
\* recalled with the arrow keys or picked in the history dialog.
MaxRecall == 2

\* Number of entries deleted one by one from a full history, and length of
\* the histories that are deleted down to nothing.
MaxDeletes == 2

\* ------------------------------------------------------- program constants
maxRetries == 10

DefaultSize == 64

MAX_HISTORY == 50

Models == {"m1", "m2"}

NoModel == "null"

\* The models of the selector in the order of the list (lines 335-344).
textGenerationModels == << "m1", "m2" >>

OpenTags == {"O64", "O32", "O0"}

\* Values the size input is set to.
Sizes == {32, 64}

\* The storage categories deleteAllModelCache clears, in its order.
Categories ==
  << "IndexedDB", "CacheStorage", "localStorage", "sessionStorage",
     "serviceWorkers" >>

\* Every token a text is made of.
Tokens == OpenTags \cup {"T", "B", "C"}

\* Fragments the inference adapter may yield (chunk.choices[0].delta.content
\* or, when that is missing, the empty string).
Chunks ==
  { <<>>, <<"T">>, <<"O32", "C">>, <<"O64", "B", "C">>,
    <<"O64", "C", "O32", "C">> }

\* Prompt texts the user types; a prompt is a sequence of characters.
TypedPrompts == { <<"a">> }

\* Prompt texts typed where the history is exercised: a new prompt, the
\* oldest prompt of a stored history and a blank one.
TypedHistoryPrompts == { <<"a">>, <<"1">>, <<" ">> }

\* What reading an array beyond its end yields.
Undefined == <<"undefined">>

\* A history of n prompts "n", ..., "1", most recent first.
Numbered(n) == [i \in 1..n |-> <<ToString(n - i + 1)>>]

\* Histories localStorage holds when the component mounts: none, or the
\* MAX_HISTORY prompts earlier sessions submitted.
StoredHistories == { <<>>, Numbered(MAX_HISTORY) }

\* --------------------------------------------------------------- variables
VARIABLES
  prompt,              \* useState prompt
  selectedModel,       \* useState selectedModel
  size,                \* useState size
  extractedSVGs,       \* useState extractedSVGs
  selectedSVGIndex,    \* useState selectedSVGIndex
  cachedModels,        \* useState cachedModels (the cache index)
  abortControllerRef,  \* useRef: 0 = null, else the controller's identity
  shouldStopRef,       \* useRef: the stop intent
  engineRef,           \* useWebLLM useRef: 0 = null, else the engine handle
  currentModelRef,     \* useWebLLM useRef: model of engineRef, or NoModel
  pc,                  \* position of handleGenerate: "idle", "init", "stream"
  req,                 \* request parameters captured by the running call
  attempt,             \* handleGenerate local: attempt
  currentOutput,       \* handleGenerate local: currentOutput
  fullResponse,        \* generateSVG local: fullResponse
  engine,              \* generateSVG local: engine serving the stream
  abortSignal,         \* generateSVG params.abortSignal (controller identity)
  interrupted,         \* adapter: interruptGenerate reached the serving engine
  stopPending,         \* handleStop invocations awaiting interruptGenerate
  calls,               \* generateSVG invocations made by the current call
  outcome,             \* "Idle", "Running", "Succeeded", "Stopped", "FatalFailed"
  toastError,          \* cause carried by the call's last toast.error
  errorToasts,         \* number of toast.error notifications of the call
  sizeWarnings,        \* size-mismatch warnings logged by the last validation
  step,                \* what the latest step was: "generate" (a call was
                       \* entered), the end of a streaming call ("done": it
                       \* returned, "abort" or "transport": it raised such
                       \* an error), or "other"
  created,             \* the latest step constructed a new AbortController
  stopRequested,       \* handleStop set the stop intent during this call
  skipRequested,       \* handleRetry was invoked during the current attempt
  engineReset,         \* resetEngine ran since the latest streaming call began
  promptHistory,       \* useState promptHistory, most recent first
  historyIndex,        \* useState historyIndex, -1 when no entry is recalled
  storedPrompt,        \* localStorage "svg-generator-current-prompt"
  storedHistory,       \* localStorage "svg-generator-prompt-history"
  storedModel,         \* localStorage "svg-generator-selected-model"
  deleteCachePc,       \* per model, position of handleDeleteCache: "idle",
                       \* "deleteModelInCache" or "cacheStorage" (awaited)
  deleteAllPc,         \* position of handleDeleteAllCache: "idle", or the
                       \* call it awaits: "databases", "caches",
                       \* "registrations"
  attempted,           \* storage categories the latest deleteAllModelCache
                       \* has started to clear
  resident,            \* adapter storage: the models whose files it holds
  loadModelsPc,        \* position of the cache scan of loadModels: 0 when
                       \* none is running, else the index of the model whose
                       \* hasModelInCache it awaits
  cached,              \* loadModels local: cached
  buffer,              \* extraction on its own: the text it is applied to
  fragments,           \* extraction on its own: the list it returned last
  ran,                 \* extractions of the present buffer: "no", "once",
                       \* "again"
  lastIndex            \* lastIndex of the regular expression last used

\* The inputs of the form.
formVars == << prompt, selectedModel, size >>

\* What the component shows.
viewVars == << extractedSVGs, selectedSVGIndex, cachedModels >>

\* The engine refs of useWebLLM.
engineVars == << engineRef, currentModelRef >>

\* What the control flow of handleGenerate and generateSVG decides.
flowVars ==
  << pc, attempt, currentOutput, fullResponse, engine, abortSignal,
     interrupted, abortControllerRef, shouldStopRef, calls, outcome,
     toastError, errorToasts, skipRequested >>

\* The prompt history of the component.
historyVars == << promptHistory, historyIndex >>

\* The three items the component keeps in localStorage; an item that is
\* absent reads as the empty list, the empty text or NoModel, which is how
\* the component treats it when it loads (lines 232-241, 372-378).
storageVars == << storedPrompt, storedHistory, storedModel >>

\* The cache operations in flight.
cacheVars ==
  << deleteCachePc, deleteAllPc, attempted, resident, loadModelsPc, cached >>

\* The state of the component and of the hook.
appVars ==
  << formVars, viewVars, engineVars, flowVars, req, stopPending,
     stopRequested, step, sizeWarnings, created, engineReset, historyVars,
     storageVars, cacheVars >>

\* The extraction applied on its own to a buffer.
extractVars == << buffer, fragments, ran, lastIndex >>

vars == << appVars, extractVars >>

\* ------------------------------------------------------------ pure helpers
\* String.prototype.trim on a prompt: drop leading and trailing blanks.
RECURSIVE trimStart(_)
trimStart(s) ==
  IF s # <<>> /\ Head(s) = " " THEN trimStart(Tail(s)) ELSE s

RECURSIVE trimEnd(_)
trimEnd(s) ==
  IF s # <<>> /\ s[Len(s)] = " " THEN trimEnd(SubSeq(s, 1, Len(s) - 1)) ELSE s

trim(s) == trimEnd(trimStart(s))

\* Index of the first token of text at or after position i that is in S, or 0.
RECURSIVE FindFrom(_, _, _)
FindFrom(text, i, S) ==
  IF i > Len(text) THEN 0
  ELSE IF text[i] \in S THEN i
  ELSE FindFrom(text, i + 1, S)

\* text.match(/<svg[\s\S]*?<\/svg>/gi): the non-overlapping, lazily matched
\* spans from an opening tag to the first closing tag after it, left to right.
RECURSIVE MatchFrom(_, _)
MatchFrom(text, i) ==
  LET o == FindFrom(text, i, OpenTags)
      c == IF o = 0 THEN 0 ELSE FindFrom(text, o + 1, {"C"})
  IN IF o = 0 \/ c = 0 THEN <<>>
     ELSE <<SubSeq(text, o, c)>> \o MatchFrom(text, c + 1)

\* The span from the first opening tag to the last closing tag: what the
\* expression would match with a greedy quantifier.
svgMatchesGreedy(text) ==
  LET o == FindFrom(text, 1, OpenTags)
      cs == { c \in 1..Len(text) : c > o /\ text[c] = "C" }
  IN IF o = 0 \/ cs = {} THEN <<>>
     ELSE <<SubSeq(text, o, CHOOSE c \in cs : \A d \in cs : d <= c)>>

svgMatches(text) == MatchFrom(text, 1)

\* One exec of a shared global expression: the first match at or after
\* lastIndex, which is left at the end of that match.
matchStickyExec(text, li) ==
  LET o == FindFrom(text, li + 1, OpenTags)
      c == IF o = 0 THEN 0 ELSE FindFrom(text, o + 1, {"C"})
  IN IF o = 0 \/ c = 0 THEN [matches |-> <<>>, lastIndex |-> 0]
     ELSE [matches |-> <<SubSeq(text, o, c)>>, lastIndex |-> c]

\* String.prototype.match with the global expression of lines 524 and 546,
\* li being the lastIndex the expression holds: the search starts at index
\* 0 whatever li is, collects every match and leaves lastIndex at 0.
matchGlobal(text, li) == [matches |-> svgMatches(text), lastIndex |-> 0]

\* isSvg(svg) of the is-svg package: the fragment is well-formed XML whose
\* root element is svg.  A matched span is an opening tag ... closing tag;
\* it is well formed when nothing but text lies between the two.
isSvgAnySpan(svg) == Len(svg) >= 2

isSvg(svg) ==
  /\ Len(svg) >= 2
  /\ svg[1] \in OpenTags
  /\ svg[Len(svg)] = "C"
  /\ \A i \in 2..(Len(svg) - 1) : svg[i] = "T"

\* svg.match(/viewBox=["']([^"']+)["']/i), split on blanks, parseFloat of
\* the third and fourth value: <<width, height>>, or <<>> without a viewBox.
viewBox(svg) ==
  LET o == FindFrom(svg, 1, {"O64", "O32"})
  IN IF o = 0 THEN <<>>
     ELSE IF svg[o] = "O64" THEN <<64, 64>> ELSE <<32, 32>>

\* The condition of the size warning (lines 571-576).
sizeMismatch(svg, sz) ==
  /\ viewBox(svg) # <<>>
  /\ (viewBox(svg)[1] # sz \/ viewBox(svg)[2] # sz)

\* Array.prototype.filter with a predicate given as a set of kept elements.
RECURSIVE filterSeq(_, _)
filterSeq(s, keep) ==
  IF s = <<>> THEN <<>>
  ELSE IF Head(s) \in keep THEN <<Head(s)>> \o filterSeq(Tail(s), keep)
  ELSE filterSeq(Tail(s), keep)

Range(s) == { s[i] : i \in 1..Len(s) }

\* array[index] for a zero-based index.
at(array, index) ==
  IF index >= 0 /\ index < Len(array) THEN array[index + 1] ELSE Undefined

\* Array.prototype.slice(0, n).
slice(s, n) == SubSeq(s, 1, IF Len(s) < n THEN Len(s) ELSE n)

\* The history saveToHistory stores for newPrompt (lines 249-256): nothing
\* changes for a blank prompt; otherwise the prompt goes first, its earlier
\* occurrences are dropped and the list is cut to MAX_HISTORY entries.
saveToHistoryKeepsOld(prev, newPrompt) ==
  IF trim(newPrompt) = <<>> THEN prev
  ELSE slice(<<newPrompt>> \o prev, MAX_HISTORY)

saveToHistory(prev, newPrompt) ==
  IF trim(newPrompt) = <<>> THEN prev
  ELSE slice(<<newPrompt>> \o filterSeq(prev, Range(prev) \ {newPrompt}),
             MAX_HISTORY)

\* The validation loop of handleGenerate (lines 561-584): the matches that
\* pass isSvg, in order; a size mismatch does not drop a block.
validSVGsStrict(matches, sz) ==
  filterSeq(matches, { m \in Range(matches) : isSvg(m) /\ ~sizeMismatch(m, sz) })

validSVGs(matches, sz) ==
  filterSeq(matches, { m \in Range(matches) : isSvg(m) })

\* Number of size-mismatch warnings the validation loop logs.
mismatchWarnings(matches, sz) ==
  Cardinality({ i \in 1..Len(matches) :
                  isSvg(matches[i]) /\ sizeMismatch(matches[i], sz) })

\* The preview filter of onChunk (line 527).
previewSVGs(matches) ==
  filterSeq(matches, { m \in Range(matches) : isSvg(m) })

\* currentOutput += chunk (line 520).
accumulateInFront(text, chunk) == chunk \o text

accumulate(text, chunk) == text \o chunk

\* setSelectedSVGIndex(validSVGs.length - 1) (line 602).
defaultSelectionFirst(valid) == 0

defaultSelection(valid) == Len(valid) - 1

\* new AbortController() (lines 463 and 631).
newController == 1

\* CreateMLCEngine(): an engine handle different from the one referenced.
newEngine(old) == IF old = 1 THEN 2 ELSE 1

\* Conditions of the retry loop.
loopConditionOffByOne(att) == att <= maxRetries

loopCondition(att) == att < maxRetries

canRetryNever(att) == FALSE

canRetry(att) == att < maxRetries

exhaustedEarly(att) == att >= maxRetries - 1

exhausted(att) == att >= maxRetries

\* error.name === "AbortError" || error.message.includes("Aborted")
isAbortErrorAlways(err) == TRUE

isAbortError(err) == err = "abort"

\* Rendering conditions of the buttons.
isGenerating == pc # "idle"

isInitializing == pc = "init"

\* The generate button is disabled, and Ctrl+Enter ignored (lines 929, 283).
generateDisabledNever == FALSE

generateDisabled == isInitializing \/ isGenerating

\* line 460: shouldStopRef.current = false
resetStopFlagKeep(flag) == flag

resetStopFlag(flag) == FALSE

\* ------------------------------------------------- handleGenerate, pieces
\* A return of handleGenerate.  o is the terminal state, cause the cause of
\* the toast.error emitted on the way out ("none" when there is none), ctrl
\* and stop the values the two refs are left with, c and t the numbers of
\* streaming calls and of error toasts of the call so far.
return_(o, cause, ctrl, stop, c, t) ==
  /\ pc' = "idle"
  /\ attempt' = 0
  /\ currentOutput' = <<>>
  /\ fullResponse' = <<>>
  /\ engine' = 0
  /\ abortSignal' = 0
  /\ interrupted' = FALSE
  /\ abortControllerRef' = ctrl
  /\ shouldStopRef' = stop
  /\ outcome' = o
  /\ toastError' = cause
  /\ errorToasts' = IF cause = "none" THEN t ELSE t + 1
  /\ calls' = c
  /\ skipRequested' = FALSE
  /\ UNCHANGED engineReset

\* generateSVG up to its first suspension (lines 1346-1358, 1277-1292):
\* initializeEngine returns the loaded engine when it serves the requested
\* model, and otherwise awaits CreateMLCEngine.  No statement of the program
\* calls abort() on a controller, so the aborted checks of lines 1282, 1295,
\* 1356 and 1406 never throw.
generateSVGNoReuse(ctrl, model, engRef, curModel) ==
  /\ abortSignal' = ctrl
  /\ fullResponse' = <<>>
  /\ interrupted' = FALSE
  /\ engineReset' = FALSE
  /\ pc' = "init"
  /\ engine' = 0

generateSVG(ctrl, model, engRef, curModel) ==
  /\ abortSignal' = ctrl
  /\ fullResponse' = <<>>
  /\ interrupted' = FALSE
  /\ engineReset' = FALSE
  /\ IF engRef # 0 /\ curModel = model
       THEN pc' = "stream" /\ engine' = engRef
       ELSE pc' = "init" /\ engine' = 0

\* The head of the loop body (lines 490-512): the next attempt begins.
nextAttemptNoIncrement(att, ctrl, stop, model, engRef, curModel, c, t) ==
  /\ attempt' = IF att = 0 THEN 1 ELSE att
  /\ currentOutput' = <<>>
  /\ calls' = IF c = 0 THEN 1 ELSE c
  /\ abortControllerRef' = ctrl
  /\ shouldStopRef' = stop
  /\ outcome' = "Running"
  /\ toastError' = "none"
  /\ errorToasts' = t
  /\ skipRequested' = FALSE
  /\ generateSVG(ctrl, model, engRef, curModel)

nextAttemptKeepsOutput(att, ctrl, stop, model, engRef, curModel, c, t) ==
  /\ attempt' = att + 1
  /\ currentOutput' = currentOutput
  /\ calls' = c + 1
  /\ abortControllerRef' = ctrl
  /\ shouldStopRef' = stop
  /\ outcome' = "Running"
  /\ toastError' = "none"
  /\ errorToasts' = t
  /\ skipRequested' = FALSE
  /\ generateSVG(ctrl, model, engRef, curModel)

nextAttempt(att, ctrl, stop, model, engRef, curModel, c, t) ==
  /\ attempt' = att + 1
  /\ currentOutput' = <<>>
  /\ calls' = c + 1
  /\ abortControllerRef' = ctrl
  /\ shouldStopRef' = stop
  /\ outcome' = "Running"
  /\ toastError' = "none"
  /\ errorToasts' = t
  /\ skipRequested' = FALSE
  /\ generateSVG(ctrl, model, engRef, curModel)

\* One evaluation of the loop condition and of the stop check (lines
\* 481-488), or the code after the loop (lines 648-650).
loopTopNoStopCheck(att, ctrl, stop, model, engRef, curModel, c, t) ==
  IF loopCondition(att)
    THEN nextAttempt(att, ctrl, stop, model, engRef, curModel, c, t)
    ELSE return_("FatalFailed", "MaxRetries", 0, stop, c, t)

loopTop(att, ctrl, stop, model, engRef, curModel, c, t) ==
  IF loopCondition(att)
    THEN IF stop
           THEN return_("Stopped", "none", 0, FALSE, c, t)
           ELSE nextAttempt(att, ctrl, stop, model, engRef, curModel, c, t)
    ELSE return_("FatalFailed", "MaxRetries", 0, stop, c, t)

\* The catch clause of handleGenerate (lines 615-645) for an error err
\* raised by generateSVG; engRef and curModel are the engine refs as
\* generateSVG left them.
catchSkipRefunds(err, engRef, curModel) ==
  IF isAbortError(err)
    THEN IF shouldStopRef
           THEN /\ created' = FALSE
                /\ return_("Stopped", "none", 0, FALSE, calls, errorToasts)
           ELSE /\ created' = TRUE
                /\ loopTop(attempt - 1, newController, shouldStopRef,
                           req.model, engRef, curModel, calls, errorToasts)
    ELSE /\ created' = FALSE
         /\ IF exhausted(attempt)
              THEN return_("FatalFailed", "TransportFailure", 0,
                           shouldStopRef, calls, errorToasts)
              ELSE loopTop(attempt, abortControllerRef, shouldStopRef,
                           req.model, engRef, curModel, calls, errorToasts)

catch_(err, engRef, curModel) ==
  IF isAbortError(err)
    THEN IF shouldStopRef
           THEN /\ created' = FALSE
                /\ return_("Stopped", "none", 0, FALSE, calls, errorToasts)
           ELSE /\ created' = TRUE
                /\ loopTop(attempt, newController, shouldStopRef, req.model,
                           engRef, curModel, calls, errorToasts)
    ELSE /\ created' = FALSE
         /\ IF exhausted(attempt)
              THEN return_("FatalFailed", "TransportFailure", 0,
                           shouldStopRef, calls, errorToasts)
              ELSE loopTop(attempt, abortControllerRef, shouldStopRef,
                           req.model, engRef, curModel, calls, errorToasts)

\* The branch taken when an attempt yields nothing usable (lines 548-558
\* and 586-596): retry while attempts remain, else toast.error and return;
\* neither return clears abortControllerRef.
retryOrFailSelectedModel(cause) ==
  IF canRetry(attempt)
    THEN loopTop(attempt, abortControllerRef, shouldStopRef, selectedModel,
                 engineRef, currentModelRef, calls, errorToasts)
    ELSE return_("FatalFailed", cause, abortControllerRef, shouldStopRef,
                 calls, errorToasts)

retryOrFail(cause) ==
  IF canRetry(attempt)
    THEN loopTop(attempt, abortControllerRef, shouldStopRef, req.model,
                 engineRef, currentModelRef, calls, errorToasts)
    ELSE return_("FatalFailed", cause, abortControllerRef, shouldStopRef,
                 calls, errorToasts)

\* A step that neither enters a call nor ends an attempt.
plainStep ==
  /\ step' = "other"
  /\ sizeWarnings' = 0
  /\ created' = FALSE

\* ------------------------------------------------------------------- state
\* The state once the component has mounted and its effects have loaded the
\* model list and the history localStorage holds (lines 229-245, 313-389);
\* stored are the models the adapter's storage holds, and scanning tells
\* whether the cache scan of loadModels (lines 391-398) is still to run.
InitAt(saved, stored, scanning) ==
  /\ prompt = <<>>
  /\ selectedModel = "m1"
  /\ size = DefaultSize
  /\ extractedSVGs = <<>>
  /\ selectedSVGIndex = 0
  /\ cachedModels = {}
  /\ abortControllerRef = 0
  /\ shouldStopRef = FALSE
  /\ engineRef = 0
  /\ currentModelRef = NoModel
  /\ pc = "idle"
  /\ req = [model |-> selectedModel, size |-> size, prompt |-> prompt]
  /\ attempt = 0
  /\ currentOutput = <<>>
  /\ fullResponse = <<>>
  /\ engine = 0
  /\ abortSignal = 0
  /\ interrupted = FALSE
  /\ stopPending = 0
  /\ calls = 0
  /\ outcome = "Idle"
  /\ toastError = "none"
  /\ errorToasts = 0
  /\ sizeWarnings = 0
  /\ step = "other"
  /\ created = FALSE
  /\ stopRequested = FALSE
  /\ skipRequested = FALSE
  /\ engineReset = FALSE
  /\ buffer = <<>>
  /\ fragments = <<>>
  /\ ran = "no"
  /\ lastIndex = 0
  /\ promptHistory = saved
  /\ historyIndex = -1
  /\ storedPrompt = <<>>
  /\ storedHistory = saved
  /\ storedModel = selectedModel
  /\ deleteCachePc = [m \in Models |-> "idle"]
  /\ deleteAllPc = "idle"
  /\ attempted = {}
  /\ resident = stored
  /\ loadModelsPc = IF scanning THEN 1 ELSE 0
  /\ cached = {}

\* Every model was downloaded before and the cache scan is over; it found
\* no model (hasModelInCache answers false when the adapter's check throws,
\* lines 1439-1441).
InitWith(saved) == InitAt(saved, Models, FALSE)

\* The component mounted on an empty localStorage history.
Init == InitWith(<<>>)

\* ----------------------------------------------------------------- actions
\* Textarea onChange (lines 850-854).  Next lets the user type between
\* generation calls; a running call reads the prompt it captured on entry.
setPrompt(p) ==
  /\ p # prompt
  /\ prompt' = p
  /\ storedPrompt' = p
  /\ plainStep
  /\ UNCHANGED << selectedModel, size, viewVars, engineVars, flowVars, req,
                  stopPending, stopRequested,
                  engineReset,
                  extractVars,
                  historyVars, storedHistory, storedModel,
                  cacheVars >>

\* handleGenerate from its entry to the first suspension of the first
\* attempt (lines 429-512).  The button and Ctrl+Enter are disabled while
\* isInitializing or isGenerating; prompt.trim() throws when the prompt is
\* undefined, which ends the handler before it changed anything.
handleGenerate ==
  /\ ~generateDisabled
  /\ prompt # Undefined
  /\ trim(prompt) # <<>>
  /\ selectedModel # NoModel
  /\ req' = [model |-> selectedModel, size |-> size, prompt |-> prompt]
  /\ promptHistory' = saveToHistory(promptHistory, prompt)
  /\ storedHistory' = promptHistory'
  /\ historyIndex' = -1
  /\ prompt' = <<>>
  /\ storedPrompt' = <<>>
  /\ extractedSVGs' = <<>>
  /\ selectedSVGIndex' = 0
  /\ stopRequested' = FALSE
  /\ step' = "generate"
  /\ sizeWarnings' = 0
  /\ created' = TRUE
  /\ loopTop(0, newController, resetStopFlag(shouldStopRef), selectedModel,
             engineRef, currentModelRef, 0, 0)
  /\ UNCHANGED << selectedModel, size, cachedModels, engineVars,
                  stopPending,
                  extractVars,
                  storedModel,
                  cacheVars >>

\* CreateMLCEngine resolves (lines 1292-1309): the adapter has fetched the
\* model's files into its storage; generateSVG goes on to open the stream
\* (lines 1355-1402).
initResolved ==
  /\ pc = "init"
  /\ engineRef' = newEngine(engineRef)
  /\ currentModelRef' = req.model
  /\ engine' = engineRef'
  /\ pc' = "stream"
  /\ resident' = resident \cup {req.model}
  /\ plainStep
  /\ UNCHANGED << formVars, viewVars, attempt, currentOutput, fullResponse,
                  abortSignal, interrupted, abortControllerRef,
                  shouldStopRef, calls, outcome, toastError, errorToasts,
                  skipRequested, req, stopPending, stopRequested,
                  engineReset,
                  extractVars,
                  historyVars, storageVars,
                  deleteCachePc, deleteAllPc, attempted, loadModelsPc,
                  cached >>

\* CreateMLCEngine rejects (lines 1310-1327): the refs are cleared and the
\* error reaches the catch clause of handleGenerate.
initRejected ==
  /\ pc = "init"
  /\ engineRef' = 0
  /\ currentModelRef' = NoModel
  /\ step' = "transport"
  /\ sizeWarnings' = 0
  /\ catch_("error", 0, NoModel)
  /\ UNCHANGED << formVars, viewVars, req, stopPending, stopRequested,
                  extractVars,
                  historyVars, storageVars,
                  cacheVars >>

\* The stream yields one fragment (lines 1404-1412) and onChunk runs
\* (lines 518-531).
streamChunk(chunk) ==
  /\ pc = "stream"
  /\ Len(fullResponse) < MaxLen
  /\ fullResponse' = fullResponse \o chunk
  /\ IF chunk = <<>>
       THEN UNCHANGED << currentOutput, extractedSVGs >>
       ELSE /\ currentOutput' = accumulate(currentOutput, chunk)
            /\ IF svgMatches(currentOutput') # <<>>
                 THEN extractedSVGs' = previewSVGs(svgMatches(currentOutput'))
                 ELSE UNCHANGED extractedSVGs
  /\ plainStep
  /\ UNCHANGED << formVars, selectedSVGIndex, cachedModels, engineVars, pc,
                  attempt, engine, abortSignal, interrupted,
                  abortControllerRef, shouldStopRef, calls, outcome,
                  toastError, errorToasts, skipRequested, req, stopPending,
                  stopRequested,
                  engineReset,
                  extractVars,
                  historyVars, storageVars,
                  cacheVars >>

\* The stream ends, generateSVG returns fullResponse (lines 1414-1416) and
\* handleGenerate extracts and validates (lines 543-614).
streamDone ==
  /\ pc = "stream"
  /\ LET matches == svgMatches(fullResponse)
         valid == validSVGs(matches, req.size)
     IN IF matches = <<>>
          THEN /\ sizeWarnings' = 0
               /\ retryOrFail("NoMatchFound")
               /\ UNCHANGED viewVars
          ELSE /\ sizeWarnings' = mismatchWarnings(matches, req.size)
               /\ IF valid = <<>>
                    THEN /\ retryOrFail("NoValidMatch")
                         /\ UNCHANGED viewVars
                    ELSE /\ extractedSVGs' = valid
                         /\ selectedSVGIndex' = defaultSelection(valid)
                         /\ cachedModels' = cachedModels \cup {req.model}
                         /\ return_("Succeeded", "none", 0, shouldStopRef,
                                    calls, errorToasts)
  /\ step' = "done"
  /\ created' = FALSE
  /\ UNCHANGED << formVars, engineVars, req, stopPending, stopRequested,
                  extractVars,
                  historyVars, storageVars,
                  cacheVars >>

\* The streaming call raises err (lines 1417-1422).  The adapter raises an
\* abort error only after interruptGenerate reached the serving engine.
streamThrows(err) ==
  /\ pc = "stream"
  /\ isAbortError(err) => interrupted
  /\ step' = IF isAbortError(err) THEN "abort" ELSE "transport"
  /\ sizeWarnings' = 0
  /\ catch_(err, engineRef, currentModelRef)
  /\ UNCHANGED << formVars, viewVars, engineVars, req, stopPending,
                  stopRequested,
                  extractVars,
                  historyVars, storageVars,
                  cacheVars >>

\* interruptGenerate (lines 1507-1511): reaches the engine engineRef holds,
\* if any; it interrupts the running stream when that engine serves it.
interruptGenerate ==
  interrupted' =
    (interrupted \/ (pc = "stream" /\ engineRef # 0 /\ engineRef = engine))

\* handleStop up to its await (lines 653-658).  The button is rendered
\* while isInitializing or isGenerating.
handleStop ==
  /\ isInitializing \/ isGenerating
  /\ abortControllerRef # 0
  /\ stopPending < MaxPendingStops
  /\ shouldStopRef' = TRUE
  /\ stopRequested' = TRUE
  /\ interruptGenerate
  /\ stopPending' = stopPending + 1
  /\ plainStep
  /\ UNCHANGED << formVars, viewVars, engineVars, pc, attempt,
                  currentOutput, fullResponse, engine, abortSignal,
                  abortControllerRef, calls, outcome, toastError,
                  errorToasts, skipRequested, req,
                  engineReset,
                  extractVars,
                  historyVars, storageVars,
                  cacheVars >>

\* handleStop after its await (lines 659-661).
handleStopResumed ==
  /\ stopPending > 0
  /\ stopPending' = stopPending - 1
  /\ abortControllerRef' = 0
  /\ plainStep
  /\ UNCHANGED << formVars, viewVars, engineVars, pc, attempt,
                  currentOutput, fullResponse, engine, abortSignal,
                  interrupted, shouldStopRef, calls, outcome, toastError,
                  errorToasts, skipRequested, req, stopRequested,
                  engineReset,
                  extractVars,
                  historyVars, storageVars,
                  cacheVars >>

\* handleRetry (lines 665-672); what follows its await is a toast only.
handleRetryClearsStop ==
  /\ isInitializing \/ isGenerating
  /\ abortControllerRef # 0
  /\ skipRequested' = TRUE
  /\ shouldStopRef' = FALSE
  /\ interruptGenerate
  /\ plainStep
  /\ UNCHANGED << formVars, viewVars, engineVars, pc, attempt,
                  currentOutput, fullResponse, engine, abortSignal,
                  abortControllerRef, calls, outcome, toastError,
                  errorToasts, req, stopPending, stopRequested, engineReset,
                  extractVars, historyVars, storageVars, cacheVars >>

handleRetry ==
  /\ isInitializing \/ isGenerating
  /\ abortControllerRef # 0
  /\ skipRequested' = TRUE
  /\ interruptGenerate
  /\ plainStep
  /\ UNCHANGED << formVars, viewVars, engineVars, pc, attempt,
                  currentOutput, fullResponse, engine, abortSignal,
                  abortControllerRef, shouldStopRef, calls, outcome,
                  toastError, errorToasts, req, stopPending, stopRequested,
                  engineReset,
                  extractVars,
                  historyVars, storageVars,
                  cacheVars >>

\* resetEngine (lines 1427-1432).
resetEngineKeepsRefs ==
  /\ UNCHANGED << engineRef, currentModelRef >>
  /\ engineReset' = TRUE

resetEngine ==
  /\ engineRef' = 0
  /\ currentModelRef' = NoModel
  /\ engineReset' = TRUE

\* handleModelChange (lines 747-755); the selector is never disabled.
handleModelChange(value) ==
  /\ selectedModel' = value
  /\ storedModel' = value
  /\ resetEngine
  /\ plainStep
  /\ UNCHANGED << prompt, size, viewVars, flowVars, req, stopPending,
                  stopRequested,
                  extractVars,
                  historyVars, storedPrompt, storedHistory,
                  cacheVars >>

Next ==
  \/ ~isGenerating /\ \E p \in TypedPrompts : setPrompt(p)
  \/ handleGenerate
  \/ initResolved
  \/ initRejected
  \/ \E chunk \in Chunks : streamChunk(chunk)
  \/ streamDone
  \/ \E err \in {"abort", "error"} : streamThrows(err)
  \/ handleStop
  \/ handleStopResumed
  \/ handleRetry
  \/ \E value \in Models : handleModelChange(value)

Spec == Init /\ [][Next]_vars

\* ------------------------------------------------- the prompt history
\* The state left alone by the operations on the history and on the prompt.
historyFrame ==
  << selectedModel, size, viewVars, engineVars, flowVars, req, stopPending,
     stopRequested, engineReset, extractVars, cacheVars >>

\* handlePromptKeyDown, ArrowUp (lines 294-303); the cursor is on the first
\* line of the textarea.
arrowUp ==
  /\ Len(promptHistory) > 0
  /\ LET newIndex == IF historyIndex + 1 < Len(promptHistory) - 1
                       THEN historyIndex + 1 ELSE Len(promptHistory) - 1
     IN /\ newIndex < MaxRecall
        /\ historyIndex' = newIndex
        /\ prompt' = at(promptHistory, newIndex)
  /\ plainStep
  /\ UNCHANGED << promptHistory, storageVars, historyFrame >>

\* handlePromptKeyDown, ArrowDown (lines 304-309).
arrowDown ==
  /\ historyIndex > -1
  /\ LET newIndex == historyIndex - 1
     IN /\ historyIndex' = newIndex
        /\ prompt' = IF newIndex = -1 THEN <<>>
                      ELSE at(promptHistory, newIndex)
  /\ plainStep
  /\ UNCHANGED << promptHistory, storageVars, historyFrame >>

\* A click on entry index of the history dialog (lines 803-807).
applyHistory(index) ==
  /\ index \in 0..(Len(promptHistory) - 1)
  /\ prompt' = at(promptHistory, index)
  /\ plainStep
  /\ UNCHANGED << historyVars, storageVars, historyFrame >>

\* deleteHistoryItem (lines 260-267).
deleteHistoryItem(index) ==
  /\ index \in 0..(Len(promptHistory) - 1)
  /\ Len(promptHistory) > MAX_HISTORY - MaxDeletes
       \/ Len(promptHistory) <= MaxDeletes
  /\ promptHistory' =
       SubSeq(promptHistory, 1, index)
         \o SubSeq(promptHistory, index + 2, Len(promptHistory))
  /\ storedHistory' = promptHistory'
  /\ plainStep
  /\ UNCHANGED << prompt, historyIndex, storedPrompt, storedModel,
                  historyFrame >>

\* clearHistory (lines 270-275); its button is rendered for a history that
\* is not empty.
clearHistory ==
  /\ Len(promptHistory) > 0
  /\ promptHistory' = <<>>
  /\ storedHistory' = <<>>
  /\ historyIndex' = -1
  /\ plainStep
  /\ UNCHANGED << prompt, storedPrompt, storedModel, historyFrame >>

\* The prompt is edited, recalled and submitted between generation calls and
\* the oldest entry of the history is deleted; every call is served a stream
\* that delivers one chunk holding a block.
NextHistory ==
  \/ ~isGenerating /\ \E p \in TypedHistoryPrompts : setPrompt(p)
  \/ ~isGenerating /\ arrowUp
  \/ ~isGenerating /\ arrowDown
  \/ ~isGenerating /\ \E index \in 0..(MaxRecall - 1) : applyHistory(index)
  \/ ~isGenerating
       /\ \E index \in {Len(promptHistory) - 1} : deleteHistoryItem(index)
  \/ ~isGenerating /\ clearHistory
  \/ handleGenerate
  \/ initResolved
  \/ fullResponse = <<>> /\ streamChunk(<<"O64", "C">>)
  \/ fullResponse # <<>> /\ streamDone

SpecHistory ==
  (\E saved \in StoredHistories : InitWith(saved)) /\ [][NextHistory]_vars

\* ------------------------------------------------- the cache operations
\* The state left alone by the cache operations: the form, the generation
\* in progress, the engine refs, the history.
cacheFrame ==
  << formVars, extractedSVGs, selectedSVGIndex, engineVars, flowVars, req,
     stopPending, stopRequested, engineReset, historyVars, extractVars,
     loadModelsPc, cached >>

\* A step of a cache operation; label tells how the operation ended, if it
\* did.
cacheStep(label) ==
  /\ step' = label
  /\ sizeWarnings' = 0
  /\ created' = FALSE

\* newSet.delete(modelId) (lines 720-724).
removeFromIndexAll(index, modelId) == {}

removeFromIndex(index, modelId) == index \ {modelId}

\* handleDeleteCache up to the first await of deleteModelCache (lines 717-719,
\* 1446-1449).  The button is rendered for a selected model that is in the
\* cache index and is disabled while isInitializing or isGenerating.
handleDeleteCache(modelId) ==
  /\ ~(isInitializing \/ isGenerating)
  /\ modelId = selectedModel
  /\ modelId \in cachedModels
  /\ deleteCachePc[modelId] = "idle"
  /\ deleteCachePc' = [deleteCachePc EXCEPT ![modelId] = "deleteModelInCache"]
  /\ cacheStep("other")
  /\ UNCHANGED << cachedModels, storageVars, deleteAllPc, attempted,
                  resident, cacheFrame >>

\* The catch clauses of deleteModelCache and of handleDeleteCache (lines
\* 1460-1463, 727-730): the error is rethrown and reported with toast.error.
deleteCacheFailedRemoves(modelId) ==
  /\ deleteCachePc' = [deleteCachePc EXCEPT ![modelId] = "idle"]
  /\ cachedModels' = cachedModels \ {modelId}
  /\ cacheStep("cacheDeleteFailed")
  /\ UNCHANGED << storageVars, deleteAllPc, attempted, resident,
                  cacheFrame >>

deleteCacheFailed(modelId) ==
  /\ deleteCachePc' = [deleteCachePc EXCEPT ![modelId] = "idle"]
  /\ cacheStep("cacheDeleteFailed")
  /\ UNCHANGED << cachedModels, storageVars, deleteAllPc, attempted,
                  resident, cacheFrame >>

\* deleteModelInCache settles (line 1449); on success the adapter's storage
\* no longer holds the model and deleteModelCache goes on to the Cache
\* Storage (lines 1452-1453).
deleteModelInCacheSettled(modelId, ok) ==
  /\ deleteCachePc[modelId] = "deleteModelInCache"
  /\ IF ok
       THEN /\ deleteCachePc' =
                 [deleteCachePc EXCEPT ![modelId] = "cacheStorage"]
            /\ resident' = resident \ {modelId}
            /\ cacheStep("other")
            /\ UNCHANGED << cachedModels, storageVars, deleteAllPc,
                            attempted, cacheFrame >>
       ELSE deleteCacheFailed(modelId)

\* caches.keys and caches.delete settle (lines 1453-1458); on success
\* handleDeleteCache removes the model from the cache index (lines 720-726).
cacheStorageSettled(modelId, ok) ==
  /\ deleteCachePc[modelId] = "cacheStorage"
  /\ IF ok
       THEN /\ deleteCachePc' = [deleteCachePc EXCEPT ![modelId] = "idle"]
            /\ cachedModels' = removeFromIndex(cachedModels, modelId)
            /\ cacheStep("cacheDeleted")
            /\ UNCHANGED << storageVars, deleteAllPc, attempted, resident,
                            cacheFrame >>
       ELSE deleteCacheFailed(modelId)

\* The catch clauses of deleteAllModelCache and of handleDeleteAllCache
\* (lines 1500-1503, 741-744) when clearing category fails: the categories
\* after it are not reached.
deleteAllFailed(category) ==
  /\ deleteAllPc' = "idle"
  /\ attempted' = attempted \cup {category}
  /\ cacheStep("allDeleteFailed")
  /\ UNCHANGED << cachedModels, deleteCachePc, cacheFrame >>

\* handleDeleteAllCache up to the first await of deleteAllModelCache (lines
\* 733-735, 1466-1470).  The button is disabled while isInitializing or
\* isGenerating.
handleDeleteAllCache ==
  /\ ~(isInitializing \/ isGenerating)
  /\ deleteAllPc = "idle"
  /\ deleteAllPc' = "databases"
  /\ attempted' = {}
  /\ cacheStep("other")
  /\ UNCHANGED << cachedModels, storageVars, deleteCachePc, resident,
                  cacheFrame >>

\* indexedDB.databases() settles (lines 1470-1473); on success every
\* database is deleted and caches.keys() is awaited (line 1478).  The
\* adapter is created without an appConfig (line 1292) and keeps the models
\* in the Cache Storage.
databasesSettled(ok) ==
  /\ deleteAllPc = "databases"
  /\ IF ok
       THEN /\ deleteAllPc' = "caches"
            /\ attempted' = attempted \cup {"IndexedDB"}
            /\ cacheStep("other")
            /\ UNCHANGED << cachedModels, storageVars, deleteCachePc,
                            resident, cacheFrame >>
       ELSE /\ deleteAllFailed("IndexedDB")
            /\ UNCHANGED << storageVars, resident >>

\* caches.keys and caches.delete settle (lines 1478-1481); on success the
\* adapter's storage holds no model, localStorage and sessionStorage are
\* cleared (lines 1485-1492) and getRegistrations() is awaited (line 1496).
\* failed is the category whose clearing throws, "none" when none does; a
\* Cache Storage that throws has or has not deleted the cache of the models
\* before.
cachesSettled(failed) ==
  /\ deleteAllPc = "caches"
  /\ IF failed = "CacheStorage"
       THEN /\ deleteAllFailed("CacheStorage")
            /\ \E wiped \in BOOLEAN :
                 resident' = IF wiped THEN {} ELSE resident
            /\ UNCHANGED storageVars
       ELSE IF failed = "localStorage"
         THEN /\ deleteAllPc' = "idle"
              /\ attempted' = attempted \cup {"CacheStorage", "localStorage"}
              /\ resident' = {}
              /\ cacheStep("allDeleteFailed")
              /\ UNCHANGED << cachedModels, storageVars, deleteCachePc,
                              cacheFrame >>
         ELSE /\ storedPrompt' = <<>>
              /\ storedHistory' = <<>>
              /\ storedModel' = NoModel
              /\ resident' = {}
              /\ IF failed = "sessionStorage"
                   THEN /\ deleteAllPc' = "idle"
                        /\ attempted' =
                             attempted \cup {"CacheStorage", "localStorage",
                                             "sessionStorage"}
                        /\ cacheStep("allDeleteFailed")
                   ELSE /\ deleteAllPc' = "registrations"
                        /\ attempted' =
                             attempted \cup {"CacheStorage", "localStorage",
                                             "sessionStorage"}
                        /\ cacheStep("other")
              /\ UNCHANGED << cachedModels, deleteCachePc, cacheFrame >>

\* getRegistrations and unregister settle (lines 1496-1499); on success
\* handleDeleteAllCache empties the cache index (lines 736-740).
registrationsSettled(ok) ==
  /\ deleteAllPc = "registrations"
  /\ IF ok
       THEN /\ deleteAllPc' = "idle"
            /\ attempted' = attempted \cup {"serviceWorkers"}
            /\ cachedModels' = {}
            /\ cacheStep("allDeleted")
            /\ UNCHANGED << storageVars, deleteCachePc, resident,
                            cacheFrame >>
       ELSE /\ deleteAllFailed("serviceWorkers")
            /\ UNCHANGED << storageVars, resident >>

\* The cache operations next to generation calls that are served a stream
\* delivering one chunk that holds a block.
NextCache ==
  \/ \E modelId \in Models : handleDeleteCache(modelId)
  \/ \E modelId \in Models : \E ok \in BOOLEAN :
       deleteModelInCacheSettled(modelId, ok)
  \/ \E modelId \in Models : \E ok \in BOOLEAN :
       cacheStorageSettled(modelId, ok)
  \/ handleDeleteAllCache
  \/ \E ok \in BOOLEAN : databasesSettled(ok)
  \/ \E failed \in {"none", "CacheStorage", "localStorage", "sessionStorage"} :
       cachesSettled(failed)
  \/ \E ok \in BOOLEAN : registrationsSettled(ok)
  \/ \E value \in Models : handleModelChange(value)
  \/ ~isGenerating /\ \E p \in TypedPrompts : setPrompt(p)
  \/ handleGenerate
  \/ initResolved
  \/ fullResponse = <<>> /\ streamChunk(<<"O64", "C">>)
  \/ fullResponse # <<>> /\ streamDone

SpecCache == Init /\ [][NextCache]_vars

\* ------------------------------------------------- the cache index
\* One hasModelInCache of the cache scan of loadModels settles (lines
\* 391-398, 1434-1444): found is its answer, false also when the adapter's
\* check throws.  After the last model the scan replaces the cache index by
\* the set it collected.
hasModelInCacheSettled(found) ==
  /\ loadModelsPc > 0
  /\ found => textGenerationModels[loadModelsPc] \in resident
  /\ LET seen == IF found
                   THEN cached \cup {textGenerationModels[loadModelsPc]}
                   ELSE cached
     IN IF loadModelsPc < Len(textGenerationModels)
          THEN /\ loadModelsPc' = loadModelsPc + 1
               /\ cached' = seen
               /\ cacheStep("other")
               /\ UNCHANGED cachedModels
          ELSE /\ loadModelsPc' = 0
               /\ cached' = {}
               /\ cachedModels' = seen
               /\ cacheStep("cacheScanned")
  /\ UNCHANGED << formVars, extractedSVGs, selectedSVGIndex, engineVars,
                  flowVars, req, stopPending, stopRequested, engineReset,
                  historyVars, storageVars, extractVars, deleteCachePc,
                  deleteAllPc, attempted, resident >>

\* The component mounted while the adapter's storage holds any of the
\* models; the cache scan is about to run.
InitIndex == \E stored \in SUBSET Models : InitAt(<<>>, stored, TRUE)

\* No cache scan, single delete or full wipe is in flight.
cacheIdle ==
  /\ loadModelsPc = 0
  /\ deleteAllPc = "idle"
  /\ \A modelId \in Models : deleteCachePc[modelId] = "idle"

\* The cache scan, single deletes and full wipes, and between them
\* generation calls of the selected model whose attempts succeed, fail, are
\* skipped or are stopped; a call is begun when no cache operation is in
\* flight.
NextIndex ==
  \/ \E found \in BOOLEAN : hasModelInCacheSettled(found)
  \/ \E modelId \in Models : handleDeleteCache(modelId)
  \/ \E modelId \in Models : \E ok \in BOOLEAN :
       deleteModelInCacheSettled(modelId, ok)
  \/ \E modelId \in Models : \E ok \in BOOLEAN :
       cacheStorageSettled(modelId, ok)
  \/ handleDeleteAllCache
  \/ \E ok \in BOOLEAN : databasesSettled(ok)
  \/ \E failed \in {"none", "CacheStorage", "localStorage", "sessionStorage"} :
       cachesSettled(failed)
  \/ \E ok \in BOOLEAN : registrationsSettled(ok)
  \/ ~isGenerating /\ \E p \in TypedPrompts : setPrompt(p)
  \/ cacheIdle /\ handleGenerate
  \/ initResolved
  \/ initRejected
  \/ fullResponse = <<>> /\ streamChunk(<<"O64", "C">>)
  \/ streamDone
  \/ \E err \in {"abort", "error"} : streamThrows(err)
  \/ handleStop
  \/ handleStopResumed
  \/ handleRetry

SpecIndex == InitIndex /\ [][NextIndex]_vars

\* ------------------------------------- calls whose awaits all settle
\* Generation calls of one model: every fragment the adapter may yield, every
\* way a streaming call may end, stops and skips; the textarea is never
\* disabled, so the user types the next prompt at any time.
NextLive ==
  \/ \E p \in TypedPrompts : setPrompt(p)
  \/ handleGenerate
  \/ initResolved
  \/ initRejected
  \/ \E chunk \in Chunks : streamChunk(chunk)
  \/ streamDone
  \/ \E err \in {"abort", "error"} : streamThrows(err)
  \/ handleStop
  \/ handleStopResumed
  \/ handleRetry

\* Every engine initialization resolves or rejects and every streaming call
\* returns or raises.
initSettles == initResolved \/ initRejected

streamSettles ==
  (\E err \in {"abort", "error"} : streamThrows(err)) \/ streamDone

SpecLive ==
  /\ Init
  /\ [][NextLive]_vars
  /\ WF_vars(initSettles)
  /\ WF_vars(streamSettles)

\* --------------------------------- parameters changed during a call
\* The size input, onChange (line 878); it is never disabled.
setSize(value) ==
  /\ value # size
  /\ size' = value
  /\ plainStep
  /\ UNCHANGED << prompt, selectedModel, viewVars, engineVars, flowVars, req,
                  stopPending, stopRequested, engineReset, historyVars,
                  storageVars, cacheVars, extractVars >>

\* The prompt, the size and the model are changed at any time, also while a
\* call is in progress; a stream delivers at most one chunk, and a streaming
\* call returns or raises a transport error.
NextParams ==
  \/ \E p \in TypedPrompts : setPrompt(p)
  \/ \E value \in Sizes : setSize(value)
  \/ \E value \in Models : handleModelChange(value)
  \/ handleGenerate
  \/ initResolved
  \/ fullResponse = <<>> /\ streamChunk(<<"O32", "C">>)
  \/ streamDone
  \/ streamThrows("error")

SpecParams == Init /\ [][NextParams]_vars

\* ------------------------------------------- the artifact selection
\* A click on button #index+1 above the preview (lines 993-1004, and
\* 1059-1066 on the code tab); the buttons are rendered for a list of more
\* than one artifact, one per entry.
setSelectedSVGIndex(index) ==
  /\ Len(extractedSVGs) > 1
  /\ index \in 0..(Len(extractedSVGs) - 1)
  /\ selectedSVGIndex' = index
  /\ plainStep
  /\ UNCHANGED << formVars, extractedSVGs, cachedModels, engineVars,
                  flowVars, req, stopPending, stopRequested, engineReset,
                  historyVars, storageVars, cacheVars, extractVars >>

\* Generation calls whose streams deliver one or two blocks per chunk and
\* return or raise a transport error, while the user selects artifacts of
\* the list on display.
NextSelect ==
  \/ ~isGenerating /\ \E p \in TypedPrompts : setPrompt(p)
  \/ handleGenerate
  \/ initResolved
  \/ \E chunk \in { <<"O32", "C">>, <<"O64", "C", "O32", "C">> } :
       streamChunk(chunk)
  \/ streamDone
  \/ streamThrows("error")
  \/ \E index \in 0..MaxLen : setSelectedSVGIndex(index)

SpecSelect == Init /\ [][NextSelect]_vars

\* ------------------------------------------- the extraction on its own
\* The extraction of handleGenerate and of onChunk reads the text and
\* nothing else.  Here it is applied to every text of at most MaxBuf tokens:
\* the text grows by one token at a time as a stream delivers it, is emptied
\* as a retry empties currentOutput, and is extracted at any moment.

\* fullResponse += content, currentOutput += chunk (lines 1410, 521).
receive(tok) ==
  /\ Len(buffer) < MaxBuf
  /\ buffer' = Append(buffer, tok)
  /\ fragments' = <<>>
  /\ ran' = "no"
  /\ UNCHANGED << lastIndex, appVars >>

\* currentOutput = "" at the start of a retry (lines 491-496).
clearBuffer ==
  /\ buffer # <<>>
  /\ buffer' = <<>>
  /\ fragments' = <<>>
  /\ ran' = "no"
  /\ UNCHANGED << lastIndex, appVars >>

\* The extraction of onChunk (lines 524-529): the matches that pass isSvg;
\* without a match there is no list.
extractPreview ==
  /\ LET m == matchGlobal(buffer, lastIndex)
     IN /\ fragments' = IF m.matches = <<>> THEN <<>>
                        ELSE previewSVGs(m.matches)
        /\ lastIndex' = m.lastIndex
  /\ ran' = IF ran = "no" THEN "once" ELSE "again"
  /\ UNCHANGED << buffer, appVars >>

\* The extraction of handleGenerate (lines 546-584) for the requested size.
extractFinal(sz) ==
  /\ LET m == matchGlobal(buffer, lastIndex)
     IN /\ fragments' = IF m.matches = <<>> THEN <<>>
                        ELSE validSVGs(m.matches, sz)
        /\ lastIndex' = m.lastIndex
  /\ ran' = IF ran = "no" THEN "once" ELSE "again"
  /\ UNCHANGED << buffer, appVars >>

NextExtract ==
  \/ \E tok \in Tokens : receive(tok)
  \/ clearBuffer
  \/ extractPreview
  \/ \E sz \in {32, 64} : extractFinal(sz)

SpecExtract == Init /\ [][NextExtract]_vars

\* ------------------------------------------------------------------ claims
\* The claims read the final text of a streaming call with definitions of
\* their own, not with the operators of the model.

\* The text holds a candidate block: an opening tag with a closing tag
\* somewhere after it.
hasCandidate(text) ==
  \E o \in 1..Len(text) : \E c \in 1..Len(text) :
    o < c /\ text[o] \in OpenTags /\ text[c] = "C"

\* The span that starts at o and ends at c is a well-formed block.
isBlock(text, o, c) ==
  /\ o < c
  /\ text[o] \in OpenTags
  /\ text[c] = "C"
  /\ \A i \in (o + 1)..(c - 1) : text[i] = "T"

\* The well-formed blocks of the text, left to right.
RECURSIVE blocksFrom(_, _)
blocksFrom(text, o) ==
  IF o > Len(text) THEN <<>>
  ELSE IF \E c \in 1..Len(text) : isBlock(text, o, c)
    THEN <<SubSeq(text, o, CHOOSE c \in 1..Len(text) : isBlock(text, o, c))>>
           \o blocksFrom(text, o + 1)
    ELSE blocksFrom(text, o + 1)

blocksOf(text) == blocksFrom(text, 1)

\* The width and height a block declares, as a set (empty without viewBox).
declaredSizes(block) ==
  IF block[1] = "O64" THEN {64} ELSE IF block[1] = "O32" THEN {32} ELSE {}

\* The step ends the streaming call of the running attempt.
streamReturns == pc = "stream" /\ step' = "done"

\* C1: a generation call makes at most 10 streaming calls, whatever the
\* outcomes of its attempts: one counter bounds them all.
C1_AtMostTenStreamingCalls == calls <= 10

C1_Witness ==
  /\ calls = 10
  /\ outcome = "FatalFailed"
  /\ toastError = "MaxRetries"

\* C2: once stop has been requested while an attempt's stream has delivered
\* text, the call ends Stopped: no success, no finalized artifact list, no
\* failure notification.
C2_StopEndsStopped ==
  [][(shouldStopRef /\ pc = "stream" /\ fullResponse # <<>> /\ pc' = "idle")
       => (outcome' = "Stopped" /\ errorToasts' = 0
           /\ extractedSVGs' = extractedSVGs)]_vars

\* C3: after stop has been requested in a generation call, that call opens
\* no new streaming call.
C3_NoAttemptAfterStop ==
  [][(stopRequested /\ isGenerating) => calls' = calls]_vars

C3_Witness ==
  /\ stopRequested
  /\ step = "done"
  /\ outcome = "Stopped"
  /\ calls < maxRetries

\* C4 as stated: a call entered with the stop intent set terminates Stopped
\* without a streaming call.
C4_StopBeforeCallStopsIt ==
  [][(shouldStopRef /\ step' = "generate")
       => (calls' = 0 /\ outcome' = "Stopped")]_vars

\* C4 amended: a stop invoked before a call begins is discarded: the call
\* clears the stop intent on entry and issues its first streaming call; a
\* call ends Stopped only after a streaming call of its own and a stop
\* requested during the call.
C4_StopBeforeCallIsDiscarded ==
  /\ step = "generate"
       => (calls = 1 /\ outcome = "Running" /\ ~shouldStopRef)
  /\ outcome = "Stopped" => (calls >= 1 /\ stopRequested)

C4_Witness ==
  /\ step = "generate"
  /\ stopPending > 0
  /\ calls = 1

\* C5: a skip invoked while attempt k < 10 streams makes attempt k+1 begin
\* when attempt k ends, with an empty buffer and a newly constructed
\* AbortController.
C5_SkipStartsFreshAttempt ==
  [][(skipRequested /\ ~stopRequested /\ pc = "stream"
      /\ attempt < maxRetries /\ step' \in {"done", "abort", "transport"})
       => (attempt' = attempt + 1 /\ currentOutput' = <<>> /\ created')]_vars

\* C6: whenever stop has been requested in a call, the stream of the
\* attempt in flight has been interrupted on the engine that serves it.
C6_StopInterruptsStream ==
  (stopRequested /\ pc = "stream") => interrupted

\* C7: a stream that ends with at least one valid block in its text ends the
\* call Succeeded on that attempt, with the valid blocks in order as the
\* artifact list, the last one selected and the request's model in the cache
\* index.
C7_SuccessOnValidBlock ==
  [][(streamReturns /\ blocksOf(fullResponse) # <<>>)
       => /\ outcome' = "Succeeded"
          /\ pc' = "idle"
          /\ extractedSVGs' = blocksOf(fullResponse)
          /\ selectedSVGIndex' = Len(blocksOf(fullResponse)) - 1
          /\ req.model \in cachedModels'
          /\ calls' = calls]_vars

C7_Witness ==
  /\ step = "done"
  /\ outcome = "Succeeded"
  /\ Len(extractedSVGs) = 2
  /\ selectedSVGIndex = 1
  /\ req.model \in cachedModels
  /\ req.model # selectedModel

\* C8 as stated: an attempt below 10 whose stream ends without a candidate
\* block is followed by the next attempt.
C8_NoMatchAlwaysRetried ==
  [][(streamReturns /\ ~hasCandidate(fullResponse) /\ attempt < maxRetries)
       => attempt' = attempt + 1]_vars

\* C8 amended: an attempt whose stream ends without a candidate block is
\* followed by the next attempt if its ordinal is below 10 and stop has not
\* been requested; if stop has been requested the call ends Stopped; the
\* tenth such attempt ends the call FatalFailed with the no-match cause
\* after exactly 10 streaming calls.
C8_NoMatchRetriedUnlessStopped ==
  [][(streamReturns /\ ~hasCandidate(fullResponse))
       => IF attempt < 10
            THEN IF shouldStopRef
                   THEN outcome' = "Stopped" /\ calls' = calls
                        /\ errorToasts' = 0
                   ELSE attempt' = attempt + 1 /\ calls' = calls + 1
                        /\ outcome' = "Running" /\ errorToasts' = 0
            ELSE /\ outcome' = "FatalFailed"
                 /\ toastError' = "NoMatchFound"
                 /\ errorToasts' = 1
                 /\ calls' = 10]_vars

C8_Witness ==
  /\ step = "done"
  /\ outcome = "FatalFailed"
  /\ toastError = "NoMatchFound"
  /\ calls = 10

\* The cause of the attempt the step ends, among the three of the claim.
C9_CauseOfEndedAttempt ==
  IF step' = "transport" THEN "TransportFailure"
  ELSE IF step' = "done" /\ ~hasCandidate(fullResponse) THEN "NoMatchFound"
  ELSE IF step' = "done" /\ blocksOf(fullResponse) = <<>> THEN "NoValidMatch"
  ELSE "none"

\* C9 as stated: a call that exhausts the budget emits exactly one failure
\* notification, carrying the no-match, no-valid-block or transport cause of
\* its tenth attempt.
C9_FailureCarriesLastCause ==
  [][(isGenerating /\ outcome' = "FatalFailed")
       => (errorToasts' = 1 /\ C9_CauseOfEndedAttempt # "none"
           /\ toastError' = C9_CauseOfEndedAttempt)]_vars

\* C9 amended: a call that exhausts the budget emits exactly one failure
\* notification; it carries the cause of the tenth attempt when that attempt
\* ended in no match, no valid block or a transport error, and the cause
\* "maximum retry attempts reached" when the tenth attempt ended by an abort
\* after a skip; no failure notification is emitted before the tenth attempt
\* has ended.
C9_OneFailureNotification ==
  [][isGenerating
       => /\ errorToasts = 0
          /\ outcome' = "FatalFailed"
               => /\ attempt = 10
                  /\ errorToasts' = 1
                  /\ toastError' = IF step' = "abort" THEN "MaxRetries"
                                   ELSE C9_CauseOfEndedAttempt
                  /\ toastError' # "none"
          /\ outcome' # "FatalFailed" => errorToasts' = 0]_vars

C9_Witness ==
  /\ outcome = "FatalFailed"
  /\ step = "abort"
  /\ toastError = "MaxRetries"
  /\ errorToasts = 1
  /\ calls = 10

\* C10: a well-formed block whose declared size differs from the requested
\* size is accepted: the attempt succeeds, the block is in the artifact list
\* and a warning is recorded.
C10_SizeMismatchAccepted ==
  [][streamReturns
       => \A i \in 1..Len(blocksOf(fullResponse)) :
            LET block == blocksOf(fullResponse)[i]
            IN (declaredSizes(block) # {} /\ declaredSizes(block) # {req.size})
                 => /\ outcome' = "Succeeded"
                    /\ extractedSVGs'[i] = block
                    /\ Len(extractedSVGs') = Len(blocksOf(fullResponse))
                    /\ sizeWarnings' >= 1
                    /\ errorToasts' = 0
                    /\ calls' = calls]_vars

C10_Witness ==
  /\ step = "done"
  /\ outcome = "Succeeded"
  /\ sizeWarnings = 1
  /\ extractedSVGs = << <<"O64", "C">>, <<"O32", "C">> >>

\* C11: when the streaming call of attempt k raises an error that is not an
\* abort error, attempt k+1 is started if k < 10 and stop was not requested,
\* and the call ends FatalFailed with that error as its cause if k = 10.
C11_TransportErrorRetriedOrFatal ==
  [][(isGenerating /\ step' = "transport")
       => IF attempt < 10
            THEN ~shouldStopRef
                   => /\ attempt' = attempt + 1
                      /\ calls' = calls + 1
                      /\ outcome' = "Running"
                      /\ errorToasts' = 0
            ELSE /\ outcome' = "FatalFailed"
                 /\ toastError' = "TransportFailure"
                 /\ errorToasts' = 1
                 /\ calls' = 10]_vars

C11_Witness ==
  /\ step = "transport"
  /\ outcome = "FatalFailed"
  /\ toastError = "TransportFailure"
  /\ calls = 10

\* The number of opening tags minus the number of closing tags among the
\* first i tokens of the text.
tagDepth(text, i) ==
  Cardinality({ j \in 1..i : text[j] \in OpenTags })
    - Cardinality({ j \in 1..i : text[j] = "C" })

\* The text is made of well-formed, non-overlapping blocks with plain text
\* around them: no malformed markup, every opening tag closed before the
\* next one, no closing tag on its own.
cleanBuffer(text) ==
  /\ \A i \in 1..Len(text) : text[i] # "B" /\ tagDepth(text, i) \in {0, 1}
  /\ tagDepth(text, Len(text)) = 0

\* C12: for a buffer made of n well-formed, non-overlapping blocks and no
\* malformed text, the extraction returns exactly those n blocks, left to
\* right.
C12_ExtractReturnsAllBlocks ==
  (ran # "no" /\ cleanBuffer(buffer))
    => /\ fragments = blocksOf(buffer)
       /\ Len(fragments) =
            Cardinality({ j \in 1..Len(buffer) : buffer[j] \in OpenTags })

C12_Witness ==
  /\ ran # "no"
  /\ cleanBuffer(buffer)
  /\ Len(fragments) = 2
  /\ fragments[1] # fragments[2]

\* C13: for a buffer without any well-formed block (an opening tag never
\* closed, a matched span that is not well formed) the extraction returns
\* the empty list.
C13_ExtractNothingWithoutBlock ==
  (ran # "no" /\ blocksOf(buffer) = <<>>) => fragments = <<>>

C13_Witness ==
  /\ ran # "no"
  /\ buffer = <<"O64", "B", "C", "O32">>
  /\ fragments = <<>>

\* C14: extracting the same buffer again returns the same list, whatever was
\* extracted before.
C14_ExtractIsRepeatable ==
  [][(ran # "no" /\ ran' # "no" /\ buffer' = buffer)
       => fragments' = fragments]_vars

C14_Witness ==
  /\ ran = "again"
  /\ Len(buffer) = MaxBuf
  /\ fragments = << <<"O32", "T", "C">> >>

\* The step begins a streaming call: the first attempt of a call or the
\* next attempt of the running one.
streamingCallBegins == pc' # "idle" /\ attempt' > attempt

\* C15: a streaming call initializes an engine only when the engine refs do
\* not hold an engine loaded for the requested model; when they do, the
\* call skips initialization and streams from that same engine handle, in a
\* later attempt as in a later generation call.
C15_EngineReusedForSameModel ==
  [][streamingCallBegins
       => IF engineRef' # 0 /\ currentModelRef' = req'.model
            THEN pc' = "stream" /\ engine' = engineRef' /\ engineRef' = engineRef
            ELSE pc' = "init" /\ engine' = 0]_vars

C15_Witness ==
  /\ step = "generate"
  /\ pc = "stream"
  /\ engineRef # 0
  /\ engine = engineRef
  /\ currentModelRef = req.model
  /\ cachedModels = {req.model}

\* C16 as stated: after a model change or reset the engine reference is null
\* until the next streaming call begins, and that call initializes an engine
\* before it streams, also when the reset happens while an initialization or
\* a stream is in flight.
C16_ResetForcesReinit ==
  [][/\ (engineReset' /\ ~streamingCallBegins) => engineRef' = 0
     /\ (engineReset /\ streamingCallBegins) => pc' = "init"]_vars

\* C16 amended: a model change or reset sets the engine refs to null.  An
\* initialization in flight at that moment still stores its engine and its
\* model identifier in the refs when it resolves; nothing else makes a null
\* engine reference non-null.  A streaming call that begins while the engine
\* reference is null initializes an engine before it streams; one that
\* begins after a reset skips initialization only when the refs hold an
\* engine that a resolved initialization stored for the requested model.
C16_ResetNullsRefsUntilInit ==
  [][/\ (engineReset' /\ selectedModel' # selectedModel)
          => (engineRef' = 0 /\ currentModelRef' = NoModel)
     /\ (engineRef = 0 /\ engineRef' # 0)
          => /\ pc = "init" /\ pc' = "stream"
             /\ currentModelRef' = req.model
             /\ engine' = engineRef'
     /\ (streamingCallBegins /\ engineRef' = 0) => pc' = "init"
     /\ (streamingCallBegins /\ engineReset /\ pc' # "init")
          => /\ engineRef' # 0
             /\ currentModelRef' = req'.model
             /\ engine' = engineRef']_vars

C16_Witness ==
  /\ engineReset
  /\ pc = "stream"
  /\ engineRef # 0
  /\ engine = engineRef
  /\ currentModelRef = req.model
  /\ selectedModel # req.model

\* The entries of a history other than prompt p, in their order.
RECURSIVE others(_, _)
others(history, p) ==
  IF history = <<>> THEN <<>>
  ELSE IF history[1] = p THEN others(Tail(history), p)
  ELSE <<history[1]>> \o others(Tail(history), p)

\* C17: the prompt history never has more than 50 entries nor two equal
\* entries; a submission puts the submitted prompt at index 0 and leaves the
\* other entries in their relative order, an entry that was already present
\* being moved and not duplicated.
C17_HistoryBoundedDistinctRecentFirst ==
  [][/\ Len(promptHistory') <= 50
     /\ Cardinality({ promptHistory'[i] : i \in 1..Len(promptHistory') })
          = Len(promptHistory')
     /\ step' = "generate"
          => LET rest == others(promptHistory, prompt)
                 kept == IF Len(rest) < 49 THEN Len(rest) ELSE 49
             IN /\ promptHistory'[1] = prompt
                /\ Tail(promptHistory') = SubSeq(rest, 1, kept)]_vars

C17_Witness ==
  /\ step = "generate"
  /\ Len(promptHistory) = 50
  /\ promptHistory[1] = <<"1">>
  /\ promptHistory[2] = <<"50">>
  /\ promptHistory[50] = <<"2">>

\* C18: the draft localStorage holds equals the prompt text of the
\* component after every operation that changes the prompt: typing,
\* recalling a history entry with the arrow keys or from the history
\* dialog, submitting.
C18_StoredDraftEqualsPrompt == storedPrompt = prompt


\* The step with which handleDeleteCache(modelId) ends.
deleteCacheEnds(modelId) ==
  deleteCachePc[modelId] # "idle" /\ deleteCachePc'[modelId] = "idle"

\* C19: when the deletion of one model's cache ends, a successful delete has
\* removed exactly that model from the cache index, a failed delete has left
\* the cache index as it was and is reported as a failure, and in both cases
\* the generation state and the engine refs are as before.
C19_DeleteCacheUpdatesIndex ==
  [][ \A modelId \in Models :
        deleteCacheEnds(modelId) =>
          /\ step' \in {"cacheDeleted", "cacheDeleteFailed"}
          /\ step' = "cacheDeleted" => cachedModels' = cachedModels \ {modelId}
          /\ step' = "cacheDeleteFailed" => cachedModels' = cachedModels
          /\ UNCHANGED << flowVars, engineVars, req, extractedSVGs >> ]_vars

\* A delete fails while a generation is streaming and two models are in the
\* cache index.
C19_Witness ==
  /\ step = "cacheDeleteFailed"
  /\ pc = "stream"
  /\ cachedModels = Models

\* C20: when deleteAll has ended, with or without a failure, every storage
\* category has been attempted.
C20_EveryCategoryAttempted ==
  step \in {"allDeleted", "allDeleteFailed"} => attempted = Range(Categories)


\* C21: provided every engine initialization and every streaming call
\* settles, a generation call that is running eventually reaches Succeeded,
\* Stopped or FatalFailed, whatever skips and failures occur.
C21_CallTerminates ==
  (outcome = "Running") ~> (outcome \in {"Succeeded", "Stopped", "FatalFailed"})

\* A call ended after ten streaming calls, the last one skipped.
C21_Witness ==
  /\ pc = "idle"
  /\ outcome = "FatalFailed"
  /\ calls = maxRetries
  /\ step = "abort"
  /\ ~stopRequested


\* C22: a generation call is entered only while none is in progress and
\* begins with attempt 1; within a call the attempt ordinal changes only when
\* the streaming call of the current attempt has returned or raised, and
\* then to the next ordinal (or the call ends).
C22_OneAttemptAtATime ==
  [][/\ step' = "generate" => (pc = "idle" /\ attempt = 0 /\ attempt' = 1)
     /\ (attempt' # attempt /\ step' # "generate")
          => /\ pc \in {"init", "stream"}
             /\ step' \in {"done", "abort", "transport"}
             /\ attempt' = attempt + 1 \/ (attempt' = 0 /\ pc' = "idle")
     /\ pc' # "idle" => attempt' \in 1..maxRetries]_vars

\* Attempt 3 streams once the streaming call of attempt 2 has returned.
C22_Witness ==
  /\ step = "done"
  /\ pc = "stream"
  /\ attempt = 3
  /\ calls = 3


\* C23: a skip (the streaming call raises an abort error while the stop
\* intent is not set) and a transport failure use up the attempt budget
\* alike: on attempt k < 10 either one is followed by attempt k+1, on attempt
\* 10 either one ends the call FatalFailed with one failure notification and
\* no further streaming call.
C23_SkipConsumesBudget ==
  [][(isGenerating /\ step' \in {"abort", "transport"} /\ ~shouldStopRef)
       => IF attempt < 10
            THEN /\ attempt' = attempt + 1
                 /\ calls' = calls + 1
                 /\ outcome' = "Running"
            ELSE /\ outcome' = "FatalFailed"
                 /\ pc' = "idle"
                 /\ calls' = calls
                 /\ errorToasts' = 1]_vars

\* Attempt 10 has begun after a skip of attempt 9.
C23_Witness ==
  /\ step = "abort"
  /\ outcome = "Running"
  /\ attempt = 10
  /\ calls = 10


\* C24: once stop has been requested while the engine is initializing, the
\* stream of that attempt is not opened: the call stays in initialization
\* until it ends Stopped.
C24_StopDuringInitHonoured ==
  [][(pc = "init" /\ stopRequested /\ shouldStopRef)
       => (pc' = "init" \/ (pc' = "idle" /\ outcome' = "Stopped"))]_vars

\* s is an initial part of t.
isPrefix(s, t) == Len(s) <= Len(t) /\ SubSeq(t, 1, Len(s)) = s

\* C25: every attempt begins with an empty buffer, also an attempt with an
\* ordinal above 1; within an attempt the buffer only grows at its end; and
\* at every moment the buffer is the text the current streaming call has
\* received, in arrival order.
C25_BufferHoldsCurrentAttemptOnly ==
  [][/\ streamingCallBegins => currentOutput' = <<>>
     /\ (~streamingCallBegins /\ pc' # "idle")
          => isPrefix(currentOutput, currentOutput')
     /\ currentOutput' = fullResponse']_vars

\* Attempt 2 begins with an empty buffer after attempt 1 received a block and
\* then failed.
C25_Witness ==
  /\ step = "transport"
  /\ attempt = 2
  /\ extractedSVGs # <<>>
  /\ currentOutput = <<>>


\* C26: while a call is in progress the request parameters it captured on
\* entry stay as they are, whatever is typed, sized or selected meanwhile;
\* every attempt of the call picks or loads its engine for the captured
\* model and is validated against the captured size.
C26_AttemptsUseCapturedParameters ==
  [][/\ (isGenerating /\ pc' # "idle") => req' = req
     /\ step' = "generate"
          => req' = [model |-> selectedModel, size |-> size, prompt |-> prompt]
     /\ streamingCallBegins
          => (pc' = "stream" <=> (engineRef' # 0 /\ currentModelRef' = req'.model))
     /\ (pc = "init" /\ pc' = "stream") => currentModelRef' = req.model
     /\ (streamReturns /\ outcome' = "Succeeded")
          => /\ req.model \in cachedModels'
             /\ sizeWarnings' =
                  Cardinality({ i \in 1..Len(extractedSVGs') :
                    /\ declaredSizes(extractedSVGs'[i]) # {}
                    /\ declaredSizes(extractedSVGs'[i]) # {req.size} })]_vars

\* A retry of a call succeeds for the model and the size the call captured
\* after the user selected another model, set another size and typed.
C26_Witness ==
  /\ step = "done"
  /\ outcome = "Succeeded"
  /\ calls >= 2
  /\ req.model # selectedModel
  /\ req.size = 64
  /\ size = 32
  /\ prompt # <<>>
  /\ sizeWarnings = 1
  /\ currentModelRef = req.model


\* The valid blocks the extraction yields for a text: the matched spans that
\* are well formed, in order.
extracted(text) ==
  filterSeq(svgMatches(text), { m \in Range(svgMatches(text)) : isSvg(m) })

\* The step delivers a fragment that adds text to the running attempt.
fragmentReceived ==
  /\ pc = "stream"
  /\ pc' = "stream"
  /\ attempt' = attempt
  /\ fullResponse' # fullResponse

\* C27: after every fragment received during an attempt the live-preview
\* list is the list of valid blocks extracted from the buffer of that
\* attempt, the empty list while the buffer holds no valid block.
C27_PreviewMatchesBuffer ==
  [][fragmentReceived => extractedSVGs' = extracted(currentOutput')]_vars

\* C28: every fragment is appended at the end of the text the streaming call
\* accumulates and of the preview buffer alike, the two are equal at every
\* fragment boundary, and the acceptance extraction of a returning call
\* yields what the extraction of the preview buffer yields.
C28_PreviewBufferEqualsStreamText ==
  [][/\ pc' = "stream" => currentOutput' = fullResponse'
     /\ fragmentReceived
          => \E chunk \in Chunks :
               /\ fullResponse' = fullResponse \o chunk
               /\ currentOutput' = currentOutput \o chunk
     /\ (streamReturns /\ outcome' = "Succeeded")
          => extractedSVGs' = extracted(currentOutput)]_vars

\* Two fragments have arrived: text, then a block.
C28_Witness ==
  /\ pc = "stream"
  /\ fullResponse = <<"T", "O32", "C">>
  /\ currentOutput = fullResponse
  /\ extractedSVGs = << <<"O32", "C">> >>

\* Every text of at most MaxBuf tokens.
Texts == UNION { [1..n -> Tokens] : n \in 0..MaxBuf }

\* C29 as stated: among the texts the buffer ranges over there are a text and
\* an extension of it by further fragments such that the list extracted from
\* the extension does not begin with the list extracted from the text.
C29_ExtensionCanDropBlock ==
  buffer \in Texts
    => \E longer \in Texts : \E k \in 0..Len(longer) :
         ~isPrefix(extracted(SubSeq(longer, 1, k)), extracted(longer))

\* C29 amended: the list extracted from a buffer begins with the list
\* extracted from any initial part of that buffer: a block once extracted
\* stays in the list, at its position, however the buffer is extended.
C29_ExtensionKeepsBlocks ==
  ran # "no"
    => \A k \in 0..Len(buffer) :
         isPrefix(extracted(SubSeq(buffer, 1, k)), fragments)

\* A block was extracted and the buffer went on with an opening tag and
\* malformed markup; the block is still the list.
C29_Witness ==
  /\ ran # "no"
  /\ buffer = <<"O32", "C", "O64", "B">>
  /\ fragments = << <<"O32", "C">> >>


\* C30: while a generation call is in progress, a stop intent that is set
\* stays set: no step that leaves the call in progress clears it.
C30_StopIntentOneWay ==
  [][(isGenerating /\ shouldStopRef /\ pc' # "idle") => shouldStopRef']_vars

\* Stop and a skip have both been requested and the call is still streaming.
C30_Witness ==
  /\ pc = "stream"
  /\ shouldStopRef
  /\ stopRequested
  /\ skipRequested
  /\ step = "other"


\* C33: while a generation call is in progress and stop has not been
\* requested in it, abortControllerRef holds a controller, so that
\* handleStop and handleRetry pass their guard; a handleStop of an earlier
\* call resumed after its await does not clear the controller of this call.
C33_ControllerHeldWhileRunning ==
  (isGenerating /\ ~stopRequested) => abortControllerRef # 0


\* C34: when a generation call has terminated, whatever its outcome,
\* abortControllerRef is null and the stop flag is false.
C34_TerminatedCallLeavesNothing ==
  (pc = "idle" /\ outcome \in {"Succeeded", "Stopped", "FatalFailed"})
    => (abortControllerRef = 0 /\ ~shouldStopRef)


\* C36: the history navigation index stays within -1 .. (history length - 1)
\* after any sequence of ArrowUp, ArrowDown, save, delete-item and clear.
C36_HistoryIndexInRange ==
  historyIndex \in -1..(Len(promptHistory) - 1)


\* C37: the prompt history persisted in localStorage equals the prompt
\* history in memory after every operation, the full cache wipe included.
C37_PersistedHistoryIsHistory ==
  storedHistory = promptHistory


\* C35: when the artifact list is not empty, the selected index addresses
\* one of its entries, whatever the user selected and whatever previews,
\* retries and endings of calls came after.
C35_SelectionAddressesArtifact ==
  extractedSVGs # <<>>
    => selectedSVGIndex \in 0..(Len(extractedSVGs) - 1)


\* C31: the cache index changes only when the cache scan ends, when a
\* generation call succeeds (the model of the request is added), when a
\* single delete succeeds (its model is removed) and when a full wipe
\* succeeds (the index is emptied); a step that ends an attempt by an error,
\* a stop or a skip, or a cache operation by a failure, leaves it as it is.
C31_IndexChangesOnFourEvents ==
  [][/\ cachedModels' # cachedModels
        => \/ loadModelsPc > 0 /\ step' = "cacheScanned"
           \/ /\ step' = "done"
              /\ outcome' = "Succeeded"
              /\ cachedModels' = cachedModels \cup {req.model}
           \/ \E modelId \in Models :
                /\ deleteCachePc[modelId] = "cacheStorage"
                /\ step' = "cacheDeleted"
                /\ cachedModels' = cachedModels \ {modelId}
           \/ /\ deleteAllPc = "registrations"
              /\ step' = "allDeleted"
              /\ cachedModels' = {}
     /\ step' \in {"abort", "transport", "cacheDeleteFailed",
                   "allDeleteFailed"}
        => cachedModels' = cachedModels
     /\ (step' = "done" /\ outcome' # "Succeeded")
        => cachedModels' = cachedModels]_vars

\* A single delete has just failed and its model is still in the index.
C31_Witness ==
  /\ step = "cacheDeleteFailed"
  /\ selectedModel \in cachedModels
  /\ loadModelsPc = 0


\* C32: every model in the cache index is resident in the adapter's
\* storage.
C32_IndexedModelsAreResident ==
  cachedModels \subseteq resident

====
